---- MODULE Spec2Model ----
(***************************************************************************)
(* Bullet scoring (crates/resume-core/src/scoring.rs) and bullet selection *)
(* (doc-gen/crates/core/src/selector.rs) of resumate.                      *)
(*                                                                         *)
(* A call of select_bullets is a small process: it collects the scored     *)
(* candidates of the resume tree and sorts them, then runs the selection   *)
(* loop one candidate per step. Scores are f32 values, computed bit-exactly.   *)
(***************************************************************************)
EXTENDS Integers, Sequences, FiniteSets, TLC

(***************************************************************************)
(* Bounds of the model.                                                    *)
(***************************************************************************)
\* companies in resume_data.experience
MaxCompanies == 2
\* positions per company
MaxPositions == 2
\* real bullets per position
MaxChildren == 2
\* candidates (real bullets + descriptions) of a whole resume tree
MaxPool == 3
\* the same, for the trees that two calls run on
MaxPairPool == 2
\* largest value of a per-company / per-position cap
MaxQuota == 2

\* the trees a call with the default config runs on: up to DefaultCompanies
\* companies of up to DefaultPositions positions, each with a description and
\* DefaultChildren bullets
DefaultCompanies == 4
DefaultPositions == 2
DefaultChildren == 5

(***************************************************************************)
(* f32.  A non-negative f32 is held as its IEEE-754 bit pattern (sign bit  *)
(* 0) and a negative one as minus the pattern of its magnitude, so the     *)
(* order of two numbers is the order of the integers that hold them and    *)
(* equality of values is equality of integers (-0.0 is held as 0.0, which  *)
(* it equals).  NaN is held as the pattern of f32::NAN; it compares with   *)
(* nothing.  Every operation rounds to nearest, ties to even, as the       *)
(* hardware does.                                                          *)
(***************************************************************************)
F32_0_0 == 0
F32_0_2 == 1045220557
F32_0_4 == 1053609165
F32_0_5 == 1056964608
F32_0_6 == 1058642330
F32_0_8 == 1061997773
F32_0_9 == 1063675494
F32_1_0 == 1065353216
F32_0_7 == 1060320051
F32_0_84 == 1062668861
F32_1_1 == 1066192077
F32_1_2 == 1067030938
F32_1_4 == 1068708659
F32_0_001 == 981668463
F32_INFINITY == 255 * 8388608
F32_MAX == 255 * 8388608 - 1
F32_NAN == 511 * 4194304

F32IsNaN(x) == x = F32_NAN
F32IsInfinite(x) == x = F32_INFINITY \/ x = 0 - F32_INFINITY
F32IsFinite(x) == ~F32IsNaN(x) /\ ~F32IsInfinite(x)
F32Abs(x) == IF x < 0 THEN 0 - x ELSE x
F32Neg(x) == IF F32IsNaN(x) THEN x ELSE 0 - x
\* x with the sign of the number s
F32Signed(s, x) == IF s < 0 THEN 0 - x ELSE x

\* f32::partial_cmp: None when either side is NaN
F32PartialCmp(x, y) ==
    IF F32IsNaN(x) \/ F32IsNaN(y) THEN <<>>
    ELSE IF x < y THEN <<"Less">>
    ELSE IF x = y THEN <<"Equal">>
    ELSE <<"Greater">>

\* number of bits of a natural number below 2^31 (0 for 0)
BitLen4(m) == IF m < 4 THEN (IF m < 2 THEN m ELSE 2) ELSE (IF m < 8 THEN 3 ELSE 4)
BitLen8(m) == IF m < 16 THEN BitLen4(m) ELSE 4 + BitLen4(m \div 16)
BitLen16(m) == IF m < 256 THEN BitLen8(m) ELSE 8 + BitLen8(m \div 256)
BitLen(m) == IF m < 65536 THEN BitLen16(m) ELSE 16 + BitLen16(m \div 65536)

\* significand and exponent of a finite pattern: value = F32Sig(b) * 2^F32Exp(b)
F32Sig(b) == IF b \div 8388608 = 0 THEN b % 8388608 ELSE 8388608 + (b % 8388608)
F32Exp(b) == IF b \div 8388608 = 0 THEN 0 - 149 ELSE (b \div 8388608) - 150

\* pattern of q * 2^e with 2^23 <= q <= 2^24 (an exponent too large gives +inf)
F32Pack(q, e) ==
    IF q = 16777216 THEN (IF e + 151 >= 255 THEN F32_INFINITY ELSE (e + 151) * 8388608)
    ELSE IF e + 150 >= 255 THEN F32_INFINITY
    ELSE (e + 150) * 8388608 + (q - 8388608)

\* whether q and a remainder r, of which half is one half of the last place
\* of q, round up to q + 1 (to nearest, ties to even); sticky: r is followed
\* by a non-zero remainder
F32RoundsUp(q, r, half, sticky) == r > half \/ (r = half /\ (sticky \/ q % 2 = 1))

\* F32Round for m of n bits
F32RoundBits(m, e, sticky, n) ==
    IF n <= 24 THEN F32Pack(m * 2^(24 - n), e - (24 - n))
    ELSE F32Pack(IF F32RoundsUp(m \div 2^(n - 24), m % 2^(n - 24), 2^(n - 25), sticky)
                 THEN m \div 2^(n - 24) + 1
                 ELSE m \div 2^(n - 24),
                 e + n - 24)

\* m * 2^e (plus a non-zero remainder below the last bit of m when sticky)
\* rounded to nearest-even; m < 2^31, and m has at least 26 bits when sticky
F32Round(m, e, sticky) ==
    IF m = 0 THEN F32_0_0
    ELSE CHOOSE r \in {F32RoundBits(v, e, sticky, BitLen(v)) : v \in {m}} : TRUE

\* `n as f32` for a u8 or a small usize
F32FromNat(n) == F32Round(n, 0, FALSE)

\* ma * 2^e + mb * 2^(e - d), or minus when sub: ma > mb * 2^-d, d >= 0,
\* the significands carry six guard bits
F32Aligned(ma, mb, e, d, sub) ==
    IF d > 30 THEN F32Round(IF sub THEN ma - 1 ELSE ma, e, TRUE)
    ELSE F32Round(IF sub
                  THEN ma - mb \div 2^d - (IF mb % 2^d # 0 THEN 1 ELSE 0)
                  ELSE ma + mb \div 2^d,
                  e, mb % 2^d # 0)

\* a + b, or a - b when sub, for finite a >= b > 0
F32AddOrdered(a, b, sub) ==
    F32Aligned(F32Sig(a) * 64, F32Sig(b) * 64, F32Exp(a) - 6, F32Exp(a) - F32Exp(b), sub)

\* x + y, any two values
F32AddAny(x, y) ==
    IF F32IsNaN(x) \/ F32IsNaN(y) THEN F32_NAN
    ELSE IF F32IsInfinite(x)
         THEN (IF F32IsInfinite(y) /\ x # y THEN F32_NAN ELSE x)
    ELSE IF F32IsInfinite(y) \/ x = 0 THEN y
    ELSE IF y = 0 THEN x
    ELSE IF F32Abs(x) = F32Abs(y) /\ x # y THEN F32_0_0
    ELSE F32Signed(IF F32Abs(x) >= F32Abs(y) THEN x ELSE y,
                   F32AddOrdered(IF F32Abs(x) >= F32Abs(y) THEN F32Abs(x) ELSE F32Abs(y),
                                 IF F32Abs(x) >= F32Abs(y) THEN F32Abs(y) ELSE F32Abs(x),
                                 (x < 0) # (y < 0)))

\* x + y (each operand is evaluated once, then added)
F32Add(x, y) == CHOOSE r \in {F32AddAny(a, b) : a \in {x}, b \in {y}} : TRUE

\* (hh * 2^24 + mid * 2^12 + ll) * 2^e rounded, the product of two significands
\* in limbs of twelve bits
F32MulLimbs(hh, mid, ll, e) ==
    F32Round((hh + mid \div 4096 + (ll + (mid % 4096) * 4096) \div 16777216) * 64
                 + ((ll + (mid % 4096) * 4096) % 16777216) \div 262144,
             e + 18,
             ((ll + (mid % 4096) * 4096) % 16777216) % 262144 # 0)

\* sx * sy * 2^e for two significands
F32MulSig(sx, sy, e) ==
    F32MulLimbs((sx \div 4096) * (sy \div 4096),
                (sx \div 4096) * (sy % 4096) + (sx % 4096) * (sy \div 4096),
                (sx % 4096) * (sy % 4096),
                e)

\* x * y, any two values
F32MulAny(x, y) ==
    IF F32IsNaN(x) \/ F32IsNaN(y) THEN F32_NAN
    ELSE IF F32IsInfinite(x) \/ F32IsInfinite(y)
         THEN (IF x = 0 \/ y = 0 THEN F32_NAN
               ELSE F32Signed(IF (x < 0) # (y < 0) THEN 0 - 1 ELSE 1, F32_INFINITY))
    ELSE IF x = 0 \/ y = 0 THEN F32_0_0
    ELSE F32Signed(IF (x < 0) # (y < 0) THEN 0 - 1 ELSE 1,
                   F32MulSig(F32Sig(F32Abs(x)), F32Sig(F32Abs(y)),
                             F32Exp(F32Abs(x)) + F32Exp(F32Abs(y))))

\* x * y (each operand is evaluated once, then multiplied)
F32Mul(x, y) == CHOOSE r \in {F32MulAny(a, b) : a \in {x}, b \in {y}} : TRUE

\* x / (k as f32), any value x
F32DivNatAny(x, k) ==
    IF F32IsNaN(x) \/ F32IsInfinite(x) \/ x = F32_0_0 THEN x
    ELSE F32Signed(x, F32Round((F32Sig(F32Abs(x)) * 64) \div k, F32Exp(F32Abs(x)) - 6,
                               (F32Sig(F32Abs(x)) * 64) % k # 0))

\* x / (k as f32) for a positive integer k <= 16 (10.0, or a count of tags);
\* the operands are evaluated once
F32DivNat(x, k) == CHOOSE r \in {F32DivNatAny(a, n) : a \in {x}, n \in {k}} : TRUE

\* the long division of significands: n more quotient bits of r / b, r < b
RECURSIVE F32DivBits(_, _, _, _)
F32DivBits(r, b, n, q) ==
    IF n = 0 THEN <<q, r>>
    ELSE IF 2 * r >= b THEN F32DivBits(2 * r - b, b, n - 1, 2 * q + 1)
         ELSE F32DivBits(2 * r, b, n - 1, 2 * q)

\* sx * 2^e / sy for significands sx, sy, rounded
F32DivSig(sx, sy, e) ==
    CHOOSE r \in { F32Round(qr[1], e - 26, qr[2] # 0) :
                   qr \in {F32DivBits(sx % sy, sy, 26, sx \div sy)} } : TRUE

\* x / y, any values (results below the normal range are not in the model)
F32DivAny(x, y) ==
    IF F32IsNaN(x) \/ F32IsNaN(y) THEN F32_NAN
    ELSE IF F32IsInfinite(x)
         THEN (IF F32IsInfinite(y) THEN F32_NAN
               ELSE F32Signed(IF (x < 0) # (y < 0) THEN 0 - 1 ELSE 1, F32_INFINITY))
    ELSE IF F32IsInfinite(y) THEN F32_0_0
    ELSE IF y = 0
         THEN (IF x = 0 THEN F32_NAN ELSE F32Signed(x, F32_INFINITY))
    ELSE IF x = 0 THEN F32_0_0
    ELSE F32Signed(IF (x < 0) # (y < 0) THEN 0 - 1 ELSE 1,
                   F32DivSig(F32Sig(F32Abs(x)), F32Sig(F32Abs(y)),
                             F32Exp(F32Abs(x)) - F32Exp(F32Abs(y))))

\* x / y (each operand is evaluated once, then divided)
F32Div(x, y) == CHOOSE r \in {F32DivAny(a, b) : a \in {x}, b \in {y}} : TRUE

(***************************************************************************)
(* Option<T>: None is the empty sequence, Some(v) the sequence <<v>>.      *)
(***************************************************************************)
None == <<>>
Some(v) == <<v>>
IsSome(o) == Len(o) = 1
Unwrap(o) == o[1]
UnwrapOr(o, d) == IF IsSome(o) THEN o[1] ELSE d

(***************************************************************************)
(* HashMap<K, V>: the sequence of its <<key, value>> entries, keys         *)
(* distinct, in the map's iteration order (which the hasher decides).      *)
(***************************************************************************)
HashMapNew == <<>>
HashMapIsEmpty(map) == Len(map) = 0
HashMapKeys(map) == {map[i][1] : i \in 1..Len(map)}
HashMapGet(map, k) ==
    IF k \in HashMapKeys(map)
    THEN Some(map[CHOOSE i \in 1..Len(map) : map[i][1] = k][2])
    ELSE None

(***************************************************************************)
(* Scoring: crates/resume-core/src/scoring.rs                              *)
(***************************************************************************)
\* the loop of calculate_tag_relevance over bullet_tags[i..]
RECURSIVE TagLoop(_, _, _, _, _)
TagLoop(bullet_tags, tag_weights, i, total_weight, matched_tags) ==
    IF i > Len(bullet_tags)
    THEN [total_weight |-> total_weight, matched_tags |-> matched_tags]
    ELSE LET weight == HashMapGet(tag_weights, bullet_tags[i]) IN
         IF IsSome(weight)
         THEN TagLoop(bullet_tags, tag_weights, i + 1,
                      F32Add(total_weight, Unwrap(weight)), matched_tags + 1)
         ELSE TagLoop(bullet_tags, tag_weights, i + 1, total_weight, matched_tags)

\* mutant: the weight of the first entry of the map, in its iteration order,
\* whose tag the bullet has
calculate_tag_relevance_FirstEntry(bullet_tags, tag_weights) ==
    LET hits == {i \in 1..Len(tag_weights) :
                    \E j \in 1..Len(bullet_tags) : bullet_tags[j] = tag_weights[i][1]}
    IN IF hits = {} THEN F32_0_0
       ELSE tag_weights[CHOOSE i \in hits : \A k \in hits : i <= k][2]

\* mutant: the average is taken over all the tags of the bullet
calculate_tag_relevance_AllTags(bullet_tags, tag_weights) ==
    IF Len(bullet_tags) = 0 \/ HashMapIsEmpty(tag_weights) THEN F32_0_0
    ELSE F32DivNat(TagLoop(bullet_tags, tag_weights, 1, F32_0_0, 0).total_weight,
                   Len(bullet_tags))

\* mutant: the total weight is returned, not its average
calculate_tag_relevance_Total(bullet_tags, tag_weights) ==
    IF Len(bullet_tags) = 0 \/ HashMapIsEmpty(tag_weights) THEN F32_0_0
    ELSE TagLoop(bullet_tags, tag_weights, 1, F32_0_0, 0).total_weight

calculate_tag_relevance(bullet_tags, tag_weights) ==
    IF Len(bullet_tags) = 0 \/ HashMapIsEmpty(tag_weights) THEN F32_0_0
    ELSE LET r == TagLoop(bullet_tags, tag_weights, 1, F32_0_0, 0) IN
         IF r.matched_tags = 0 THEN F32_0_0
         ELSE F32DivNat(r.total_weight, r.matched_tags)

\* mutant: the priority moves the multiplier by 0.2, not 0.4
calculate_company_multiplier_Narrow(company) ==
    F32Add(F32_0_8, F32Mul(F32DivNat(F32FromNat(company.priority), 10), F32_0_2))

calculate_company_multiplier(company) ==
    F32Add(F32_0_8, F32Mul(F32DivNat(F32FromNat(company.priority), 10), F32_0_4))

\* mutant: a position without tags gets the factor of one without relevant tags
calculate_position_multiplier_Untagged(position, tag_weights) ==
    F32Mul(F32Add(F32_0_8,
                  F32Mul(F32DivNat(F32FromNat(position.priority), 10), F32_0_4)),
           F32Add(F32_0_9,
                  F32Mul(calculate_tag_relevance(position.tags, tag_weights),
                         F32_0_2)))

\* mutant: the two multipliers are added
calculate_position_multiplier_Added(position, tag_weights) ==
    F32Add(F32Add(F32_0_8,
                  F32Mul(F32DivNat(F32FromNat(position.priority), 10), F32_0_4)),
           IF Len(position.tags) # 0
           THEN F32Add(F32_0_9,
                       F32Mul(calculate_tag_relevance(position.tags, tag_weights),
                              F32_0_2))
           ELSE F32_1_0)

calculate_position_multiplier(position, tag_weights) ==
    LET priority_multiplier ==
            F32Add(F32_0_8,
                   F32Mul(F32DivNat(F32FromNat(position.priority), 10), F32_0_4))
        tag_multiplier ==
            IF Len(position.tags) # 0
            THEN F32Add(F32_0_9,
                        F32Mul(calculate_tag_relevance(position.tags, tag_weights),
                               F32_0_2))
            ELSE F32_1_0
    IN F32Mul(priority_multiplier, tag_multiplier)

\* mutant: the priority score is centred on 0, (priority / 10) - 0.5
score_bullet_Centered(bullet, position, company, profile) ==
    F32Mul(F32Mul(F32Add(F32Mul(calculate_tag_relevance(bullet.tags, profile.tag_weights),
                                profile.scoring_weights.tag_relevance),
                         F32Mul(F32Add(F32DivNat(F32FromNat(bullet.priority), 10),
                                       F32Neg(F32_0_5)),
                                profile.scoring_weights.priority)),
                  calculate_company_multiplier(company)),
           calculate_position_multiplier(position, profile.tag_weights))

\* mutant: the priority term is subtracted from the base score
score_bullet_Penalty(bullet, position, company, profile) ==
    F32Mul(F32Mul(F32Add(F32Mul(calculate_tag_relevance(bullet.tags, profile.tag_weights),
                                profile.scoring_weights.tag_relevance),
                         F32Neg(F32Mul(F32DivNat(F32FromNat(bullet.priority), 10),
                                       profile.scoring_weights.priority))),
                  calculate_company_multiplier(company)),
           calculate_position_multiplier(position, profile.tag_weights))

\* mutant: the result is clamped to 1.0
score_bullet_Clamped(bullet, position, company, profile) ==
    CHOOSE r \in { IF v > F32_1_0 /\ ~F32IsNaN(v) THEN F32_1_0 ELSE v :
                   v \in { F32Mul(F32Mul(
                             F32Add(F32Mul(calculate_tag_relevance(bullet.tags,
                                                                   profile.tag_weights),
                                           profile.scoring_weights.tag_relevance),
                                    F32Mul(F32DivNat(F32FromNat(bullet.priority), 10),
                                           profile.scoring_weights.priority)),
                             calculate_company_multiplier(company)),
                           calculate_position_multiplier(position, profile.tag_weights)) } } :
        TRUE

score_bullet(bullet, position, company, profile) ==
    LET weights == profile.scoring_weights
        tag_score == calculate_tag_relevance(bullet.tags, profile.tag_weights)
        priority_score == F32DivNat(F32FromNat(bullet.priority), 10)
        base_score == F32Add(F32Mul(tag_score, weights.tag_relevance),
                             F32Mul(priority_score, weights.priority))
        company_multiplier == calculate_company_multiplier(company)
        position_multiplier ==
            calculate_position_multiplier(position, profile.tag_weights)
    IN F32Mul(F32Mul(base_score, company_multiplier), position_multiplier)

(***************************************************************************)
(* ScoringWeights::normalize: crates/shared-types/src/lib.rs (the same in  *)
(* doc-gen/crates/core/src/types.rs).  The message is kept as a tag.       *)
(***************************************************************************)
\* the normalized weights and the message, the sum being given
NormalizeWithSum(weights, sum) ==
    IF F32PartialCmp(F32Abs(F32Add(sum, F32Neg(F32_1_0))), F32_0_001) = Some("Less")
    THEN <<weights, None>>
    ELSE << [tag_relevance |-> F32Div(weights.tag_relevance, sum),
             priority |-> F32Div(weights.priority, sum)],
            Some("Normalized scoring weights") >>

normalize(weights) ==
    CHOOSE r \in { NormalizeWithSum(weights, sum) :
                   sum \in {F32Add(weights.tag_relevance, weights.priority)} } : TRUE

(***************************************************************************)
(* Inputs.  A resume tree is resume_data.experience: a sequence of         *)
(* companies, each with a sequence of positions, each with an optional     *)
(* description and a sequence of bullets.  Only the fields the selector    *)
(* and the scorer read are kept.                                           *)
(***************************************************************************)
Bullet(id, description, tags, priority) ==
    [id |-> id, description |-> description, tags |-> tags, priority |-> priority]

Position(id, name, description, tags, priority, children) ==
    [id |-> id, name |-> name, description |-> description, tags |-> tags,
     priority |-> priority, children |-> children]

Company(id, name, priority, children) ==
    [id |-> id, name |-> name, priority |-> priority, children |-> children]

SelectionConfig(max_bullets, max_per_company, max_per_position) ==
    [max_bullets |-> max_bullets, max_per_company |-> max_per_company,
     max_per_position |-> max_per_position]

\* min_per_company, the fourth field of the SelectionConfig of resume-core
WithMinPerCompany(cfg, min_per_company) ==
    [max_bullets |-> cfg.max_bullets, max_per_company |-> cfg.max_per_company,
     min_per_company |-> min_per_company, max_per_position |-> cfg.max_per_position]

\* mutant: a default config without the diversity caps
SelectionConfigDefault_NoCaps == WithMinPerCompany(SelectionConfig(18, None, None), None)

\* SelectionConfig::default(), with no minimum
SelectionConfigDefault ==
    WithMinPerCompany(SelectionConfig(18, Some(6), Some(4)), None)

\* the two kinds of real bullet of the input trees
BulletKinds ==
    { [tags |-> <<"engineering">>, priority |-> 10],
      [tags |-> <<"misc">>, priority |-> 3] }

\* position.description: absent, present
DescriptionChoices == {None, Some("Led engineering team")}

\* a position shape <<description, bullet kinds>> with exactly n candidates
PositionShapes(n) ==
    { sh \in DescriptionChoices \X UNION {[1..k -> BulletKinds] : k \in 0..MaxChildren} :
        Len(sh[1]) + Len(sh[2]) = n }

\* sequences of len position shapes whose candidates add up to n
RECURSIVE PositionShapeLists(_, _)
PositionShapeLists(len, n) ==
    IF len = 0 THEN (IF n = 0 THEN {<<>>} ELSE {})
    ELSE UNION { { <<sh>> \o rest : sh \in PositionShapes(a),
                                    rest \in PositionShapeLists(len - 1, n - a) } :
                 a \in 1..n }

\* a company shape (its positions) with exactly n candidates
CompanyShapes(n) == UNION { PositionShapeLists(len, n) : len \in 1..MaxPositions }

\* sequences of len company shapes whose candidates add up to n
RECURSIVE CompanyShapeLists(_, _)
CompanyShapeLists(len, n) ==
    IF len = 0 THEN (IF n = 0 THEN {<<>>} ELSE {})
    ELSE UNION { { <<sh>> \o rest : sh \in CompanyShapes(a),
                                    rest \in CompanyShapeLists(len - 1, n - a) } :
                 a \in 1..n }

\* the shapes of resume_data.experience with at most max candidates
ExperienceShapes(max) ==
    UNION { CompanyShapeLists(len, n) : len \in 0..MaxCompanies, n \in 0..max }

Odd(i) == i % 2 = 1

\* the tree of a shape: ids by place, the first position of a company senior and
\* tagged, the second junior and untagged, the first company the more prestigious
BuildBullet(kind, ci, pi, bi) ==
    Bullet("b" \o ToString(ci) \o ToString(pi) \o ToString(bi),
           "Built scalable system", kind.tags, kind.priority)

BuildPosition(sh, ci, pi) ==
    Position("pos" \o ToString(ci) \o ToString(pi),
             IF Odd(pi) THEN "Senior Engineer" ELSE "Junior Dev",
             sh[1],
             IF Odd(pi) THEN <<"engineering", "leadership">> ELSE <<>>,
             IF Odd(pi) THEN 10 ELSE 5,
             [bi \in 1..Len(sh[2]) |-> BuildBullet(sh[2][bi], ci, pi, bi)])

BuildCompany(sh, ci) ==
    Company("company" \o ToString(ci),
            IF Odd(ci) THEN Some("Company " \o ToString(ci)) ELSE None,
            IF Odd(ci) THEN 10 ELSE 5,
            [pi \in 1..Len(sh) |-> BuildPosition(sh[pi], ci, pi)])

BuildExperience(sh) == [ci \in 1..Len(sh) |-> BuildCompany(sh[ci], ci)]

\* trees off the beaten track: a company without positions, a position without
\* description and bullets, a description that is the empty string, ids used twice
DegenerateResumes ==
    { << Company("company1", None, 10, <<>>) >>,
      << Company("company1", None, 5,
                 << Position("pos11", "Junior Dev", Some(""), <<"engineering">>, 5,
                             << Bullet("b111", "Wrote code", <<"engineering">>, 3) >>) >>) >>,
      << Company("company1", None, 10,
                 << Position("pos11", "Senior Engineer", None, <<>>, 10, <<>>) >>) >>,
      << Company("company1", Some("Company 1"), 10,
                 << Position("pos11", "Senior Engineer", Some("Led engineering team"),
                             <<"engineering">>, 10,
                             << Bullet("b1", "Built scalable system", <<"engineering">>, 10) >>) >>),
         Company("company1", Some("Company 1 again"), 5,
                 << Position("pos11", "Junior Dev", None, <<>>, 5,
                             << Bullet("b1", "Fixed bugs", <<"engineering">>, 10) >>) >>) >>,
      << Company("company1", None, 255,
                 << Position("pos11", "Junior Dev", Some("Led engineering team"),
                             <<"engineering">>, 0,
                             << Bullet("b111", "Wrote code", <<"engineering">>, 0),
                                Bullet("b112", "Fixed bugs", <<"misc">>, 255) >>) >>) >> }

Resumes == {BuildExperience(sh) : sh \in ExperienceShapes(MaxPool)} \cup DegenerateResumes

\* the trees that two calls run on
PairResumes ==
    {BuildExperience(sh) : sh \in ExperienceShapes(MaxPairPool)} \cup DegenerateResumes

\* the trees the default config is run on: every position described, with
\* DefaultChildren bullets of alternating kind
DefaultResumes ==
    { BuildExperience(
          [ci \in 1..nc |->
              [pi \in 1..np |->
                  << Some("Led engineering team"),
                     [bi \in 1..DefaultChildren |->
                         IF Odd(bi) THEN [tags |-> <<"engineering">>, priority |-> 10]
                         ELSE [tags |-> <<"misc">>, priority |-> 3]] >>]]) :
        nc \in 1..DefaultCompanies, np \in 1..DefaultPositions }

\* role profiles: the one of the unit tests, one that scores by priority only,
\* one that scores by priority only and whose tag weights are f32::MAX, and one
\* without tag weights whose scoring weights do not sum to 1.0
RoleProfiles ==
    { [tag_weights |-> << <<"engineering", F32_1_0>>, <<"leadership", F32_0_9>> >>,
       scoring_weights |-> [tag_relevance |-> F32_0_6, priority |-> F32_0_4]],
      [tag_weights |-> << <<"engineering", F32_0_5>> >>,
       scoring_weights |-> [tag_relevance |-> F32_0_0, priority |-> F32_1_0]],
      [tag_weights |-> << <<"engineering", F32_MAX>>, <<"leadership", F32_MAX>> >>,
       scoring_weights |-> [tag_relevance |-> F32_0_0, priority |-> F32_1_0]],
      [tag_weights |-> <<>>,
       scoring_weights |-> [tag_relevance |-> F32_0_5, priority |-> F32_0_9]] }

\* the same map built with another hasher: the same entries in any order
RECURSIVE Orders(_)
Orders(entries) ==
    IF entries = {} THEN {<<>>}
    ELSE UNION { { <<e>> \o rest : rest \in Orders(entries \ {e}) } : e \in entries }

Rehashed(profile) ==
    { [profile EXCEPT !.tag_weights = o] :
        o \in Orders({profile.tag_weights[i] : i \in 1..Len(profile.tag_weights)}) }

AllRoleProfiles == UNION {Rehashed(p) : p \in RoleProfiles}

QuotaChoices == {None} \cup {Some(k) : k \in 1..MaxQuota}

Configs ==
    { WithMinPerCompany(SelectionConfig(mb, mc, mp), None) :
        mb \in 0..MaxPool, mc \in QuotaChoices, mp \in QuotaChoices }

\* the configs that two calls run with
PairConfigs == {cfg \in Configs : cfg.max_bullets \in 1..MaxPairPool}

(***************************************************************************)
(* State.  resume_data is the tree every call reads; the variables up to   *)
(* position_counts are per call of select_bullets: its arguments, its      *)
(* place in the code and its locals.  fn_call and fn_ret are one direct    *)
(* call of a function of scoring.rs or of count_selectable_items.          *)
(***************************************************************************)
Calls == {1, 2}

VARIABLES
    resume_data,      \* resume_data.experience
    role_profile,     \* role_profile[c]: the profile passed to call c
    config,           \* config[c]: the SelectionConfig passed to call c
    pc,               \* pc[c]: "start", "select", "done", "panicked" ("idle": not called)
    all_bullets,      \* all_bullets[c]: the candidates (sorted_bullets once sorted)
    idx,              \* idx[c]: index in sorted_bullets of the next loop iteration
    selected,         \* selected[c]: the result being built
    company_counts,   \* company_counts[c]: company id -> admitted so far
    position_counts,  \* position_counts[c]: position id -> admitted so far
    fn_call,          \* a direct call of a pure function: its name and arguments
    fn_ret            \* what that call has returned, None before it returns

vars == <<resume_data, role_profile, config, pc, all_bullets, idx, selected,
          company_counts, position_counts, fn_call, fn_ret>>

(***************************************************************************)
(* Selection: doc-gen/crates/core/src/selector.rs                          *)
(***************************************************************************)
\* mutant: the name of the position is stored as the name of the company
ScoredBullet_PositionAsCompany(bullet, score, company, position) ==
    [bullet |-> bullet, score |-> score,
     company_id |-> company.id, company_name |-> Some(position.name),
     position_id |-> position.id, position_name |-> position.name]

\* A ScoredBullet.  gen is not a field of the struct: it records the index at
\* which the candidate was pushed on all_bullets.
ScoredBullet(bullet, score, company, position) ==
    [bullet |-> bullet, score |-> score,
     company_id |-> company.id, company_name |-> company.name,
     position_id |-> position.id, position_name |-> position.name]

Push(vec, scored) == Append(vec, scored @@ [gen |-> Len(vec) + 1])

\* mutant: the description bullet is scored without the tags of the position
score_description_as_bullet_NoTags(position, company, profile) ==
    ScoredBullet(Bullet(position.id \o "-description",
                        UnwrapOr(position.description, ""),
                        position.tags, position.priority),
                 score_bullet(Bullet(position.id \o "-description",
                                     UnwrapOr(position.description, ""),
                                     <<>>, position.priority),
                              position, company, profile),
                 company, position)

score_description_as_bullet(position, company, profile) ==
    LET desc_as_bullet ==
            Bullet(position.id \o "-description",
                   UnwrapOr(position.description, ""),
                   position.tags, position.priority)
    IN ScoredBullet(desc_as_bullet,
                    score_bullet(desc_as_bullet, position, company, profile),
                    company, position)

\* `if position.description.is_some()`
HasDescription(position) == IsSome(position.description)

\* `for bullet in &position.children`, from the k-th bullet on
RECURSIVE BulletLoop(_, _, _, _, _)
BulletLoop(position, company, profile, k, acc) ==
    IF k > Len(position.children) THEN acc
    ELSE LET bullet == position.children[k] IN
         BulletLoop(position, company, profile, k + 1,
                    Push(acc, ScoredBullet(bullet,
                                           score_bullet(bullet, position, company, profile),
                                           company, position)))

\* `for position in &company.children`, from the j-th position on
RECURSIVE PositionLoop(_, _, _, _)
PositionLoop(company, profile, j, acc) ==
    IF j > Len(company.children) THEN acc
    ELSE LET position == company.children[j]
             with_desc == IF HasDescription(position)
                          THEN Push(acc, score_description_as_bullet(position, company, profile))
                          ELSE acc
         IN PositionLoop(company, profile, j + 1,
                         BulletLoop(position, company, profile, 1, with_desc))

\* `for company in &resume_data.experience`, from the i-th company on
RECURSIVE CompanyLoop(_, _, _, _)
CompanyLoop(experience, profile, i, acc) ==
    IF i > Len(experience) THEN acc
    ELSE CompanyLoop(experience, profile, i + 1,
                     PositionLoop(experience[i], profile, 1, acc))

\* all_bullets after the collection loops
CollectBullets(experience, profile) == CompanyLoop(experience, profile, 1, <<>>)

\* mutant: the loops move the bullets out of the tree instead of cloning them
ResumeAfterCollect_Drained(experience) ==
    [i \in 1..Len(experience) |->
        [experience[i] EXCEPT !.children =
            [j \in 1..Len(experience[i].children) |->
                [experience[i].children[j] EXCEPT !.children = <<>>]]]]

\* the tree after the collection loops: they iterate shared references and
\* clone what they keep
ResumeAfterCollect(experience) == experience

\* mutant: v goes before the elements of equal score (an unstable sort)
RECURSIVE InsertByScore_Unstable(_, _)
InsertByScore_Unstable(sorted, v) ==
    IF sorted = <<>> THEN <<v>>
    ELSE IF Head(sorted).score > v.score
         THEN <<Head(sorted)>> \o InsertByScore_Unstable(Tail(sorted), v)
         ELSE <<v>> \o sorted

\* v inserted in a sequence sorted by score descending, behind every element
\* whose score is not lower (the comparator is b.score.partial_cmp(&a.score))
RECURSIVE InsertByScore(_, _)
InsertByScore(sorted, v) ==
    IF sorted = <<>> THEN <<v>>
    ELSE IF Head(sorted).score >= v.score
         THEN <<Head(sorted)>> \o InsertByScore(Tail(sorted), v)
         ELSE <<v>> \o sorted

\* mutant: the sort is left out
SortByScoreDesc_NoSort(vec) == vec

\* mutant: the comparator is a.score.partial_cmp(&b.score), ascending
RECURSIVE SortByScoreDesc_Ascending(_)
SortByScoreDesc_Ascending(vec) ==
    IF vec = <<>> THEN <<>>
    ELSE LET rest == SortByScoreDesc_Ascending(SubSeq(vec, 1, Len(vec) - 1))
             v    == vec[Len(vec)]
             k    == Cardinality({i \in 1..Len(rest) : rest[i].score <= v.score})
         IN SubSeq(rest, 1, k) \o <<v>> \o SubSeq(rest, k + 1, Len(rest))

\* mutant: the sort fails on the empty vector too
SortPanics_OnEmpty(vec) ==
    \/ vec = <<>>
    \/ \E i, j \in 1..Len(vec) : i # j /\ F32PartialCmp(vec[j].score, vec[i].score) = None

\* the comparator of the sort, |a, b| b.score.partial_cmp(&a.score), is None
\* for some pair the sort compares: a sort of two elements or more compares
\* every element with another one, and partial_cmp is None when either is NaN
SortPanics(vec) ==
    \E i, j \in 1..Len(vec) : i # j /\ F32PartialCmp(vec[j].score, vec[i].score) = None

\* Vec::sort_by: a stable sort, here by score descending
RECURSIVE SortByScoreDesc(_)
SortByScoreDesc(vec) ==
    IF vec = <<>> THEN <<>>
    ELSE InsertByScore(SortByScoreDesc(SubSeq(vec, 1, Len(vec) - 1)), vec[Len(vec)])

\* counts.get(&key).unwrap_or(&0)
CountGet(counts, key) == IF key \in DOMAIN counts THEN counts[key] ELSE 0

\* *counts.entry(key).or_insert(0) += 1
CountIncrement(counts, key) ==
    [k \in DOMAIN counts \cup {key} |-> IF k = key THEN CountGet(counts, key) + 1
                                        ELSE counts[k]]

\* HashMap::new() for the counters
NoCounts == [k \in {} |-> 0]

\* mutant: `>` for `>=`
TotalLimitReached_OffByOne(sel, cfg) == Len(sel) > cfg.max_bullets

\* `if selected.len() >= config.max_bullets`
TotalLimitReached(sel, cfg) == Len(sel) >= cfg.max_bullets

\* mutant: `>` for `>=`
CompanyLimitReached_OffByOne(counts, bullet, cfg) ==
    /\ IsSome(cfg.max_per_company)
    /\ CountGet(counts, bullet.company_id) > Unwrap(cfg.max_per_company)

\* mutant: min_per_company, when set, is taken for the cap
CompanyLimitReached_MinAsCap(counts, bullet, cfg) ==
    LET cap == IF IsSome(cfg.min_per_company) THEN cfg.min_per_company
               ELSE cfg.max_per_company
    IN IsSome(cap) /\ CountGet(counts, bullet.company_id) >= Unwrap(cap)

\* `if let Some(max_per_company) = ... { if *company_count >= max_per_company`
CompanyLimitReached(counts, bullet, cfg) ==
    /\ IsSome(cfg.max_per_company)
    /\ CountGet(counts, bullet.company_id) >= Unwrap(cfg.max_per_company)

\* mutant: `>` for `>=`
PositionLimitReached_OffByOne(counts, bullet, cfg) ==
    /\ IsSome(cfg.max_per_position)
    /\ CountGet(counts, bullet.position_id) > Unwrap(cfg.max_per_position)

\* `if let Some(max_per_position) = ... { if *position_count >= max_per_position`
PositionLimitReached(counts, bullet, cfg) ==
    /\ IsSome(cfg.max_per_position)
    /\ CountGet(counts, bullet.position_id) >= Unwrap(cfg.max_per_position)

(***************************************************************************)
(* The steps of call c.                                                    *)
(***************************************************************************)
\* CollectBullets tabulated over the inputs of the model, so that the scores of
\* a tree are computed once and not once per state
Collected ==
    [r \in Resumes \cup DefaultResumes, p \in AllRoleProfiles |-> CollectBullets(r, p)]

\* select_bullets up to the loop of apply_diversity_constraints: the collection
\* loops, the sort, and the empty result and counters
CollectAndSort(c) ==
    /\ pc[c] = "start"
    /\ \E pool \in {Collected[resume_data, role_profile[c]]} :
          /\ ~SortPanics(pool)
          /\ all_bullets' = [all_bullets EXCEPT ![c] = SortByScoreDesc(pool)]
    /\ resume_data' = ResumeAfterCollect(resume_data)
    /\ selected' = [selected EXCEPT ![c] = <<>>]
    /\ company_counts' = [company_counts EXCEPT ![c] = NoCounts]
    /\ position_counts' = [position_counts EXCEPT ![c] = NoCounts]
    /\ idx' = [idx EXCEPT ![c] = 1]
    /\ pc' = [pc EXCEPT ![c] = "select"]
    /\ UNCHANGED <<role_profile, config,
                   fn_call, fn_ret>>

\* select_bullets up to the sort, whose `.unwrap()` panics
Panic(c) ==
    /\ pc[c] = "start"
    /\ \E pool \in {Collected[resume_data, role_profile[c]]} : SortPanics(pool)
    /\ resume_data' = ResumeAfterCollect(resume_data)
    /\ pc' = [pc EXCEPT ![c] = "panicked"]
    /\ UNCHANGED <<role_profile, config, all_bullets, idx, selected,
                   company_counts, position_counts,
                   fn_call, fn_ret>>

InLoop(c) == pc[c] = "select" /\ idx[c] <= Len(all_bullets[c])

\* the loop body, `break` at the total limit
Break(c) ==
    /\ InLoop(c)
    /\ TotalLimitReached(selected[c], config[c])
    /\ pc' = [pc EXCEPT ![c] = "done"]
    /\ UNCHANGED <<resume_data, role_profile, config, all_bullets, idx, selected,
                   company_counts, position_counts,
                   fn_call, fn_ret>>

\* mutant: `break` at the per-company limit
SkipCompany_Break(c) ==
    /\ InLoop(c)
    /\ ~TotalLimitReached(selected[c], config[c])
    /\ CompanyLimitReached(company_counts[c], all_bullets[c][idx[c]], config[c])
    /\ pc' = [pc EXCEPT ![c] = "done"]
    /\ UNCHANGED <<resume_data, role_profile, config, all_bullets, idx, selected,
                   company_counts, position_counts, fn_call, fn_ret>>

\* the loop body, `continue` at the per-company limit
SkipCompany(c) ==
    /\ InLoop(c)
    /\ ~TotalLimitReached(selected[c], config[c])
    /\ CompanyLimitReached(company_counts[c], all_bullets[c][idx[c]], config[c])
    /\ idx' = [idx EXCEPT ![c] = idx[c] + 1]
    /\ UNCHANGED <<resume_data, role_profile, config, pc, all_bullets, selected,
                   company_counts, position_counts,
                   fn_call, fn_ret>>

\* the loop body, `continue` at the per-position limit
SkipPosition(c) ==
    /\ InLoop(c)
    /\ ~TotalLimitReached(selected[c], config[c])
    /\ ~CompanyLimitReached(company_counts[c], all_bullets[c][idx[c]], config[c])
    /\ PositionLimitReached(position_counts[c], all_bullets[c][idx[c]], config[c])
    /\ idx' = [idx EXCEPT ![c] = idx[c] + 1]
    /\ UNCHANGED <<resume_data, role_profile, config, pc, all_bullets, selected,
                   company_counts, position_counts,
                   fn_call, fn_ret>>

\* mutant: the counters are shared by the calls, an admission counts in all
Admit_SharedCounters(c) ==
    /\ InLoop(c)
    /\ ~TotalLimitReached(selected[c], config[c])
    /\ ~CompanyLimitReached(company_counts[c], all_bullets[c][idx[c]], config[c])
    /\ ~PositionLimitReached(position_counts[c], all_bullets[c][idx[c]], config[c])
    /\ company_counts' = [d \in Calls |->
                             CountIncrement(company_counts[d],
                                            all_bullets[c][idx[c]].company_id)]
    /\ position_counts' = [d \in Calls |->
                              CountIncrement(position_counts[d],
                                             all_bullets[c][idx[c]].position_id)]
    /\ selected' = [selected EXCEPT ![c] = Append(selected[c], all_bullets[c][idx[c]])]
    /\ idx' = [idx EXCEPT ![c] = idx[c] + 1]
    /\ UNCHANGED <<resume_data, role_profile, config, pc, all_bullets,
                   fn_call, fn_ret>>

\* mutant: the loop does not move on after an admission
Admit_NoAdvance(c) ==
    /\ InLoop(c)
    /\ ~TotalLimitReached(selected[c], config[c])
    /\ ~CompanyLimitReached(company_counts[c], all_bullets[c][idx[c]], config[c])
    /\ ~PositionLimitReached(position_counts[c], all_bullets[c][idx[c]], config[c])
    /\ company_counts' = [company_counts EXCEPT
                             ![c] = CountIncrement(company_counts[c],
                                                   all_bullets[c][idx[c]].company_id)]
    /\ position_counts' = [position_counts EXCEPT
                              ![c] = CountIncrement(position_counts[c],
                                                    all_bullets[c][idx[c]].position_id)]
    /\ selected' = [selected EXCEPT ![c] = Append(selected[c], all_bullets[c][idx[c]])]
    /\ UNCHANGED <<resume_data, role_profile, config, pc, all_bullets, idx,
                   fn_call, fn_ret>>

\* mutant: an admission counts for the company only
Admit_CompanyOnly(c) ==
    /\ InLoop(c)
    /\ ~TotalLimitReached(selected[c], config[c])
    /\ ~CompanyLimitReached(company_counts[c], all_bullets[c][idx[c]], config[c])
    /\ ~PositionLimitReached(position_counts[c], all_bullets[c][idx[c]], config[c])
    /\ company_counts' = [company_counts EXCEPT
                             ![c] = CountIncrement(company_counts[c],
                                                   all_bullets[c][idx[c]].company_id)]
    /\ selected' = [selected EXCEPT ![c] = Append(selected[c], all_bullets[c][idx[c]])]
    /\ idx' = [idx EXCEPT ![c] = idx[c] + 1]
    /\ UNCHANGED <<resume_data, role_profile, config, pc, all_bullets,
                   position_counts, fn_call, fn_ret>>

\* mutant: the admitted bullet is put in front of `selected`
Admit_Prepend(c) ==
    /\ InLoop(c)
    /\ ~TotalLimitReached(selected[c], config[c])
    /\ ~CompanyLimitReached(company_counts[c], all_bullets[c][idx[c]], config[c])
    /\ ~PositionLimitReached(position_counts[c], all_bullets[c][idx[c]], config[c])
    /\ company_counts' = [company_counts EXCEPT
                             ![c] = CountIncrement(company_counts[c],
                                                   all_bullets[c][idx[c]].company_id)]
    /\ position_counts' = [position_counts EXCEPT
                              ![c] = CountIncrement(position_counts[c],
                                                    all_bullets[c][idx[c]].position_id)]
    /\ selected' = [selected EXCEPT ![c] = <<all_bullets[c][idx[c]]>> \o selected[c]]
    /\ idx' = [idx EXCEPT ![c] = idx[c] + 1]
    /\ UNCHANGED <<resume_data, role_profile, config, pc, all_bullets,
                   fn_call, fn_ret>>

\* the loop body, the bullet is added and the counters incremented
Admit(c) ==
    LET bullet == all_bullets[c][idx[c]] IN
    /\ InLoop(c)
    /\ ~TotalLimitReached(selected[c], config[c])
    /\ ~CompanyLimitReached(company_counts[c], bullet, config[c])
    /\ ~PositionLimitReached(position_counts[c], bullet, config[c])
    /\ company_counts' = [company_counts EXCEPT
                             ![c] = CountIncrement(company_counts[c], bullet.company_id)]
    /\ position_counts' = [position_counts EXCEPT
                              ![c] = CountIncrement(position_counts[c], bullet.position_id)]
    /\ selected' = [selected EXCEPT ![c] = Append(selected[c], bullet)]
    /\ idx' = [idx EXCEPT ![c] = idx[c] + 1]
    /\ UNCHANGED <<resume_data, role_profile, config, pc, all_bullets,
                   fn_call, fn_ret>>

\* the loop is over, `selected` is returned
Return(c) ==
    /\ pc[c] = "select"
    /\ idx[c] > Len(all_bullets[c])
    /\ pc' = [pc EXCEPT ![c] = "done"]
    /\ UNCHANGED <<resume_data, role_profile, config, all_bullets, idx, selected,
                   company_counts, position_counts,
                   fn_call, fn_ret>>

\* no pure function is called directly
NoCall == [fn |-> "none"]

(***************************************************************************)
(* count_selectable_items of the resume-core selector, as the              *)
(* specification states it: every real bullet, plus every position that    *)
(* has a non-empty description.                                            *)
(***************************************************************************)
\* `for position in &company.children`, from the j-th position on
RECURSIVE CountPositionLoop(_, _, _)
CountPositionLoop(company, j, acc) ==
    IF j > Len(company.children) THEN acc
    ELSE LET position == company.children[j] IN
         CountPositionLoop(company, j + 1,
             [bullet_count |-> acc.bullet_count + Len(position.children),
              position_desc_count |->
                  IF IsSome(position.description) /\ Unwrap(position.description) # ""
                  THEN acc.position_desc_count + 1
                  ELSE acc.position_desc_count])

\* `for company in &resume_data.experience`, from the i-th company on
RECURSIVE CountCompanyLoop(_, _, _)
CountCompanyLoop(experience, i, acc) ==
    IF i > Len(experience) THEN acc
    ELSE CountCompanyLoop(experience, i + 1, CountPositionLoop(experience[i], 1, acc))

\* (bullet_count, position_desc_count, total)
count_selectable_items(experience) ==
    LET acc == CountCompanyLoop(experience, 1,
                                [bullet_count |-> 0, position_desc_count |-> 0])
    IN <<acc.bullet_count, acc.position_desc_count,
         acc.bullet_count + acc.position_desc_count>>

\* count_selectable_items(&resume), called beside select_bullets
CountSelectableItems ==
    /\ fn_call = NoCall
    /\ fn_call' = [fn |-> "count_selectable_items"]
    /\ fn_ret' = Some(count_selectable_items(resume_data))
    /\ UNCHANGED <<resume_data, role_profile, config, pc, all_bullets, idx, selected,
                   company_counts, position_counts>>

Step(c) ==
    \/ CollectAndSort(c)
    \/ Panic(c)
    \/ Break(c)
    \/ SkipCompany(c)
    \/ SkipPosition(c)
    \/ Admit(c)
    \/ Return(c)

\* the locals of a call that has not started
InitLocals ==
    /\ pc = [c \in Calls |-> "start"]
    /\ fn_call = NoCall
    /\ fn_ret = None
    /\ all_bullets = [c \in Calls |-> <<>>]
    /\ idx = [c \in Calls |-> 1]
    /\ selected = [c \in Calls |-> <<>>]
    /\ company_counts = [c \in Calls |-> NoCounts]
    /\ position_counts = [c \in Calls |-> NoCounts]

(***************************************************************************)
(* Spec: one call of select_bullets, on any tree, profile and config, and  *)
(* beside it one call of count_selectable_items on the same tree.          *)
(***************************************************************************)
Init ==
    /\ resume_data \in Resumes
    /\ \E p \in RoleProfiles : role_profile = [c \in Calls |-> p]
    /\ \E cfg \in Configs : config = [c \in Calls |-> cfg]
    /\ InitLocals

Next == Step(1) \/ CountSelectableItems

Spec == Init /\ [][Next]_vars

(***************************************************************************)
(* SpecPair: two calls on the same tree, their steps interleaved.  The     *)
(* second call gets the same role profile, its tag_weights built with      *)
(* another hasher, and the same config up to min_per_company.              *)
(***************************************************************************)
InitPair ==
    /\ resume_data \in PairResumes
    /\ \E p \in RoleProfiles, q \in AllRoleProfiles :
          /\ q \in Rehashed(p)
          /\ role_profile = [c \in Calls |-> IF c = 1 THEN p ELSE q]
    /\ \E cfg \in PairConfigs, m \in QuotaChoices :
          config = [c \in Calls |-> IF c = 1 THEN cfg ELSE WithMinPerCompany(cfg, m)]
    /\ InitLocals

NextPair == \E c \in Calls : Step(c)

SpecPair == InitPair /\ [][NextPair]_vars

(***************************************************************************)
(* SpecConcurrent: two calls on the same tree, their steps interleaved,    *)
(* with any two role profiles; the config of the second call is the one of *)
(* the first, the same with max_bullets raised by one, or another one.     *)
(***************************************************************************)
\* the configs the second call runs with, the first running with cfg
ConcurrentConfigs(cfg) ==
    { cfg,
      [cfg EXCEPT !.max_bullets = cfg.max_bullets + 1],
      WithMinPerCompany(SelectionConfig(1, Some(1), None), None) }

InitConcurrent ==
    /\ resume_data \in PairResumes
    /\ role_profile \in [Calls -> RoleProfiles]
    /\ \E cfg \in PairConfigs :
          \E other \in ConcurrentConfigs(cfg) :
              config = [c \in Calls |-> IF c = 1 THEN cfg ELSE other]
    /\ InitLocals

NextConcurrent == \E c \in Calls : Step(c)

SpecConcurrent == InitConcurrent /\ [][NextConcurrent]_vars

(***************************************************************************)
(* SpecDefault: one call of select_bullets with SelectionConfig::default() *)
(* on a tree with more candidates than its caps let through.               *)
(***************************************************************************)
InitDefault ==
    /\ resume_data \in DefaultResumes
    /\ \E p \in RoleProfiles : role_profile = [c \in Calls |-> p]
    /\ config = [c \in Calls |-> SelectionConfigDefault]
    /\ InitLocals

NextDefault == Step(1)

SpecDefault == InitDefault /\ [][NextDefault]_vars

(***************************************************************************)
(* SpecScore: one direct call of a function of scoring.rs, on arguments    *)
(* that are well formed (priorities in 1..=10, weights in [0, 1]) or not   *)
(* (priorities 0 and 255, weights that are negative, above 1 or f32::MAX). *)
(***************************************************************************)
\* tag lists: empty, matched, unmatched, mixed, one tag twice
ScoringTagLists ==
    { <<>>, <<"engineering">>, <<"misc">>, <<"engineering", "leadership">>,
      <<"misc", "engineering">>, <<"engineering", "engineering">> }

\* tag_weights maps
ScoringTagWeights ==
    { <<>>,
      << <<"engineering", F32_1_0>>, <<"leadership", F32_0_9>> >>,
      << <<"engineering", F32_0_5>> >>,
      << <<"engineering", F32_0_2>>, <<"leadership", F32_0_0>> >>,
      << <<"engineering", F32FromNat(2)>>, <<"leadership", F32_0_4>> >>,
      << <<"engineering", F32Neg(F32FromNat(10))>>, <<"leadership", F32_0_2>> >>,
      << <<"engineering", F32_MAX>>, <<"leadership", F32_MAX>> >> }

\* scoring_weights records
ScoringWeightsChoices ==
    { [tag_relevance |-> F32_0_6, priority |-> F32_0_4],
      [tag_relevance |-> F32_0_0, priority |-> F32_1_0],
      [tag_relevance |-> F32_1_0, priority |-> F32_0_0],
      [tag_relevance |-> F32_0_5, priority |-> F32_0_9],
      [tag_relevance |-> F32_0_6, priority |-> F32Neg(F32_0_4)] }

ScoringProfiles ==
    { [tag_weights |-> tw, scoring_weights |-> sw] :
        tw \in ScoringTagWeights, sw \in ScoringWeightsChoices }

\* priorities are u8: those of the bullets and positions of a score_bullet call,
\* and those of the calls of the multipliers
ScoringPriorities == {0, 1, 5, 10, 255}
CompanyPriorities == 0..10 \cup {255}

ScoringBullets ==
    { Bullet("b1", "Built scalable system", tags, priority) :
        tags \in ScoringTagLists, priority \in ScoringPriorities }

ScoringPositions ==
    { Position("pos1", "Senior Engineer", None, tags, priority, <<>>) :
        tags \in {<<>>, <<"engineering">>, <<"engineering", "leadership">>},
        priority \in {0, 1, 10} }

ScoringCompanies ==
    { Company("company1", Some("Company 1"), priority, <<>>) :
        priority \in CompanyPriorities }

\* the values of a scoring weight handed to normalize: in [0, 1], just above
\* 1.0, above 1, negative
NormalizeValues ==
    { F32_0_0, F32_0_2, F32_0_4, F32_0_5, F32_0_6, F32_0_9, F32_1_0, F32_1_0 + 1,
      F32FromNat(2), F32FromNat(10), F32Neg(F32_0_4), F32Neg(F32_1_0) }

\* the calls: a function of scoring.rs and its arguments
ScoringCalls ==
    { [fn |-> "calculate_tag_relevance", bullet_tags |-> tags, tag_weights |-> tw] :
        tags \in ScoringTagLists, tw \in ScoringTagWeights }
    \cup
    { [fn |-> "calculate_company_multiplier", company |-> co] :
        co \in ScoringCompanies }
    \cup
    { [fn |-> "calculate_position_multiplier", position |-> po, tag_weights |-> tw] :
        po \in { Position("pos1", "Senior Engineer", None, tags, priority, <<>>) :
                   tags \in ScoringTagLists, priority \in CompanyPriorities },
        tw \in ScoringTagWeights }
    \cup
    { [fn |-> "normalize", weights |-> [tag_relevance |-> tr, priority |-> pr]] :
        tr \in NormalizeValues, pr \in NormalizeValues }
    \cup
    { [fn |-> "score_bullet", bullet |-> bu, position |-> po, company |-> co,
       role_profile |-> rp] :
        bu \in ScoringBullets, po \in ScoringPositions,
        co \in {c \in ScoringCompanies : c.priority \in {1, 10}},
        rp \in ScoringProfiles }

CallTagRelevance ==
    /\ fn_call.fn = "calculate_tag_relevance"
    /\ fn_ret = None
    /\ fn_ret' = Some(calculate_tag_relevance(fn_call.bullet_tags,
                                                   fn_call.tag_weights))
    /\ UNCHANGED <<resume_data, role_profile, config, pc, all_bullets, idx, selected,
                   company_counts, position_counts, fn_call>>

CallCompanyMultiplier ==
    /\ fn_call.fn = "calculate_company_multiplier"
    /\ fn_ret = None
    /\ fn_ret' = Some(calculate_company_multiplier(fn_call.company))
    /\ UNCHANGED <<resume_data, role_profile, config, pc, all_bullets, idx, selected,
                   company_counts, position_counts, fn_call>>

CallPositionMultiplier ==
    /\ fn_call.fn = "calculate_position_multiplier"
    /\ fn_ret = None
    /\ fn_ret' = Some(calculate_position_multiplier(fn_call.position,
                                                         fn_call.tag_weights))
    /\ UNCHANGED <<resume_data, role_profile, config, pc, all_bullets, idx, selected,
                   company_counts, position_counts, fn_call>>

CallScoreBullet ==
    /\ fn_call.fn = "score_bullet"
    /\ fn_ret = None
    /\ fn_ret' = Some(score_bullet(fn_call.bullet, fn_call.position,
                                        fn_call.company,
                                        fn_call.role_profile))
    /\ UNCHANGED <<resume_data, role_profile, config, pc, all_bullets, idx, selected,
                   company_counts, position_counts, fn_call>>

CallNormalize ==
    /\ fn_call.fn = "normalize"
    /\ fn_ret = None
    /\ fn_ret' = Some(normalize(fn_call.weights))
    /\ UNCHANGED <<resume_data, role_profile, config, pc, all_bullets, idx, selected,
                   company_counts, position_counts, fn_call>>

\* select_bullets is not called
InitScore ==
    /\ fn_call \in ScoringCalls
    /\ fn_ret = None
    /\ resume_data = <<>>
    /\ role_profile = [c \in Calls |-> CHOOSE p \in RoleProfiles : p.tag_weights = <<>>]
    /\ config = [c \in Calls |-> WithMinPerCompany(SelectionConfig(0, None, None), None)]
    /\ pc = [c \in Calls |-> "idle"]
    /\ all_bullets = [c \in Calls |-> <<>>]
    /\ idx = [c \in Calls |-> 1]
    /\ selected = [c \in Calls |-> <<>>]
    /\ company_counts = [c \in Calls |-> NoCounts]
    /\ position_counts = [c \in Calls |-> NoCounts]

NextScore ==
    \/ CallTagRelevance
    \/ CallCompanyMultiplier
    \/ CallPositionMultiplier
    \/ CallScoreBullet
    \/ CallNormalize

SpecScore == InitScore /\ [][NextScore]_vars

(***************************************************************************)
(* Properties.                                                             *)
(***************************************************************************)
Done(c) == pc[c] = "done"
Sorted(c) == pc[c] \in {"select", "done"}

\* how many elements of vec belong to company id / to position id
OfCompany(vec, id) == Cardinality({i \in 1..Len(vec) : vec[i].company_id = id})
OfPosition(vec, id) == Cardinality({i \in 1..Len(vec) : vec[i].position_id = id})

CompanyIds(vec) == {vec[i].company_id : i \in 1..Len(vec)}
PositionIds(vec) == {vec[i].position_id : i \in 1..Len(vec)}

Min(a, b) == IF a <= b THEN a ELSE b

\* C1: with max_per_company = Some(k), no company id occurs more than k times
\* among the bullets select_bullets returns.
C1_MaxPerCompany ==
    \A c \in Calls :
        Done(c) /\ IsSome(config[c].max_per_company) =>
            \A id \in CompanyIds(selected[c]) :
                OfCompany(selected[c], id) <= Unwrap(config[c].max_per_company)

\* the cap binds: a company has k selected bullets and more than k candidates,
\* and the total limit did not end the loop
C1_Witness ==
    \E c \in Calls :
        /\ Done(c) /\ IsSome(config[c].max_per_company)
        /\ Len(selected[c]) < config[c].max_bullets
        /\ \E id \in CompanyIds(selected[c]) :
              /\ OfCompany(selected[c], id) = Unwrap(config[c].max_per_company)
              /\ OfCompany(all_bullets[c], id) > Unwrap(config[c].max_per_company)

\* C2: with max_per_position = Some(m), no position id occurs more than m times
\* among the bullets select_bullets returns, the description bullet included.
C2_MaxPerPosition ==
    \A c \in Calls :
        Done(c) /\ IsSome(config[c].max_per_position) =>
            \A id \in PositionIds(selected[c]) :
                OfPosition(selected[c], id) <= Unwrap(config[c].max_per_position)

\* the cap binds on a position whose description bullet is among the selected
C2_Witness ==
    \E c \in Calls :
        /\ Done(c) /\ IsSome(config[c].max_per_position)
        /\ Len(selected[c]) < config[c].max_bullets
        /\ \E i \in 1..Len(selected[c]) :
              LET sb == selected[c][i] IN
              /\ sb.bullet.id = sb.position_id \o "-description"
              /\ OfPosition(selected[c], sb.position_id) = Unwrap(config[c].max_per_position)
              /\ OfPosition(all_bullets[c], sb.position_id) > Unwrap(config[c].max_per_position)

\* C3: select_bullets never returns more than config.max_bullets bullets,
\* whatever the per-company and per-position caps are.
C3_MaxBullets ==
    \A c \in Calls : Done(c) => Len(selected[c]) <= config[c].max_bullets

\* the total limit binds: it ended the loop before the pool was exhausted
C3_Witness ==
    \E c \in Calls :
        /\ Done(c)
        /\ config[c].max_bullets > 0
        /\ Len(selected[c]) = config[c].max_bullets
        /\ idx[c] <= Len(all_bullets[c])

\* C4: the list select_bullets returns is sorted by score descending.
C4_Descending ==
    \A c \in Calls :
        Done(c) =>
            \A i \in 1..(Len(selected[c]) - 1) :
                selected[c][i].score >= selected[c][i + 1].score

\* a result under caps whose order is not the generation order
C4_Witness ==
    \E c \in Calls :
        /\ Done(c)
        /\ IsSome(config[c].max_per_company) /\ IsSome(config[c].max_per_position)
        /\ \E i \in 1..(Len(selected[c]) - 1) :
              /\ selected[c][i].score > selected[c][i + 1].score
              /\ selected[c][i].gen > selected[c][i + 1].gen

\* the place of a candidate in the tree: <<company, position, k>>, k = 0 for the
\* description bullet and k for the k-th real bullet (ids are unique)
PlacesOf(sb, experience) ==
    { pl \in (1..Len(experience)) \X (1..MaxPositions + 1) \X (0..MaxChildren + 1) :
        /\ pl[2] <= Len(experience[pl[1]].children)
        /\ LET position == experience[pl[1]].children[pl[2]] IN
           IF pl[3] = 0
           THEN sb.bullet.id = position.id \o "-description"
           ELSE /\ pl[3] <= Len(position.children)
                /\ sb.bullet.id = position.children[pl[3]].id }

PlaceBefore(a, b) ==
    \/ a[1] < b[1]
    \/ a[1] = b[1] /\ a[2] < b[2]
    \/ a[1] = b[1] /\ a[2] = b[2] /\ a[3] < b[3]

\* vec keeps candidates of equal score in generation order: the order of the
\* pushes, which is the order of the places in the tree (of the candidates
\* whose id names one place)
TiesInGenerationOrder(vec, experience) ==
    \A i, j \in 1..Len(vec) :
        i < j /\ vec[i].score = vec[j].score =>
            /\ vec[i].gen < vec[j].gen
            /\ LET pi == PlacesOf(vec[i], experience)
                   pj == PlacesOf(vec[j], experience)
               IN Cardinality(pi) = 1 /\ Cardinality(pj) = 1 =>
                      \A a \in pi, b \in pj : PlaceBefore(a, b)

\* C5: the sort is stable: candidates of equal score are, in the sorted pool
\* and in the result, in generation order (company, position, description
\* before real bullets, bullet).
C5_StableSort ==
    \A c \in Calls :
        /\ Sorted(c) => TiesInGenerationOrder(all_bullets[c], resume_data)
        /\ Done(c) => TiesInGenerationOrder(selected[c], resume_data)

\* two candidates of equal score are both selected, behind a candidate that was
\* generated after them and sorted before them
C5_Witness ==
    \E c \in Calls :
        /\ Done(c)
        /\ \E i, j, k \in 1..Len(selected[c]) :
              /\ i < j /\ j < k
              /\ selected[c][j].score = selected[c][k].score
              /\ selected[c][i].gen > selected[c][k].gen
              /\ Cardinality(PlacesOf(selected[c][j], resume_data)) = 1
              /\ Cardinality(PlacesOf(selected[c][k], resume_data)) = 1

\* vec is sorted by score descending, ties in generation order
SortedPool(vec) ==
    \A i, j \in 1..Len(vec) :
        i < j => \/ vec[i].score > vec[j].score
                 \/ vec[i].score = vec[j].score /\ vec[i].gen < vec[j].gen

\* C6: without per-company and per-position caps the result is the first
\* min(max_bullets, pool size) candidates of the pool sorted by score
\* descending, ties in generation order: the max_bullets highest-scoring ones.
C6_TopN ==
    \A c \in Calls :
        Done(c) /\ ~IsSome(config[c].max_per_company)
                /\ ~IsSome(config[c].max_per_position) =>
            /\ SortedPool(all_bullets[c])
            /\ {all_bullets[c][i] : i \in 1..Len(all_bullets[c])}
                 = {Collected[resume_data, role_profile[c]][i] :
                        i \in 1..Len(Collected[resume_data, role_profile[c]])}
            /\ selected[c] = SubSeq(all_bullets[c], 1,
                                    Min(config[c].max_bullets, Len(all_bullets[c])))

\* a proper, non-empty prefix of a pool that the sort reordered
C6_Witness ==
    \E c \in Calls :
        /\ Done(c) /\ ~IsSome(config[c].max_per_company)
                   /\ ~IsSome(config[c].max_per_position)
        /\ Len(selected[c]) = 2
        /\ Len(all_bullets[c]) > 2
        /\ selected[c][1].gen > selected[c][2].gen

\* the same map: the same keys with the same values, in whatever order
SameMap(m1, m2) == {m1[i] : i \in 1..Len(m1)} = {m2[i] : i \in 1..Len(m2)}

SameProfile(p, q) ==
    /\ SameMap(p.tag_weights, q.tag_weights)
    /\ p.scoring_weights = q.scoring_weights

\* C7: two calls with the same resume, the same role profile (whatever the
\* iteration order of its tag_weights) and the same config return lists of the
\* same length with the same bullet ids and the same scores in the same order.
C7_Deterministic ==
    /\ Done(1) /\ Done(2)
    /\ SameProfile(role_profile[1], role_profile[2])
    /\ config[1] = config[2]
    => /\ Len(selected[1]) = Len(selected[2])
       /\ \A i \in 1..Len(selected[1]) :
             /\ selected[1][i].bullet.id = selected[2][i].bullet.id
             /\ selected[1][i].score = selected[2][i].score

\* two calls returned two bullets or more, one of them scored on tags, and the
\* tag_weights of the second call iterate in another order
C7_Witness ==
    /\ Done(1) /\ Done(2)
    /\ config[1] = config[2]
    /\ role_profile[1].tag_weights # role_profile[2].tag_weights
    /\ SameProfile(role_profile[1], role_profile[2])
    /\ Len(selected[1]) >= 2
    /\ \E i \in 1..Len(selected[1]) :
          calculate_tag_relevance(selected[1][i].bullet.tags,
                                  role_profile[1].tag_weights) # F32_0_0

\* the config without its min_per_company
SansMin(cfg) == WithMinPerCompany(cfg, None)

\* C8: min_per_company has no effect: two calls whose configs differ only in
\* min_per_company return the same list (and a company may get fewer than
\* min_per_company bullets).
C8_MinPerCompanyInert ==
    /\ Done(1) /\ Done(2)
    /\ SameProfile(role_profile[1], role_profile[2])
    /\ SansMin(config[1]) = SansMin(config[2])
    => selected[1] = selected[2]

\* the second call ran with min_per_company = Some(m), the first without, and
\* a company with m candidates or more got fewer than m bullets
C8_Witness ==
    /\ Done(1) /\ Done(2)
    /\ ~IsSome(config[1].min_per_company) /\ IsSome(config[2].min_per_company)
    /\ selected[1] = selected[2]
    /\ \E id \in CompanyIds(all_bullets[2]) :
          /\ OfCompany(all_bullets[2], id) >= Unwrap(config[2].min_per_company)
          /\ OfCompany(selected[2], id) < Unwrap(config[2].min_per_company)

\* the positions of the tree, and whether their ids differ from each other
PositionsOf(experience) ==
    { <<i, j>> \in (1..Len(experience)) \X (1..MaxPositions + 1) :
        j <= Len(experience[i].children) }

UniquePositionIds(experience) ==
    \A a, b \in PositionsOf(experience) :
        experience[a[1]].children[a[2]].id = experience[b[1]].children[b[2]].id => a = b

\* the candidates of vec that are the description bullet of position
VirtualOf(vec, position) ==
    {i \in 1..Len(vec) : /\ vec[i].position_id = position.id
                          /\ vec[i].bullet.id = position.id \o "-description"}

\* the candidates of vec that are the real bullet `bullet` of position
RealOf(vec, position, bullet) ==
    {i \in 1..Len(vec) : /\ vec[i].position_id = position.id
                          /\ vec[i].bullet = bullet}

\* described: the places of the positions that are to contribute a virtual bullet
CandidatesMatchTree(vec, experience, described) ==
    \A pl \in PositionsOf(experience) :
        LET position == experience[pl[1]].children[pl[2]] IN
        /\ Cardinality(VirtualOf(vec, position))
             = IF pl \in described THEN 1 ELSE 0
        /\ \A i \in VirtualOf(vec, position) :
              /\ vec[i].bullet.tags = position.tags
              /\ vec[i].bullet.priority = position.priority
              /\ Some(vec[i].bullet.description) = position.description
        /\ \A k \in 1..Len(position.children) :
              Cardinality(RealOf(vec, position, position.children[k])) = 1

\* the places of the positions whose description is a non-empty text
NonEmptyDescription(experience) ==
    { pl \in PositionsOf(experience) :
        LET d == experience[pl[1]].children[pl[2]].description
        IN IsSome(d) /\ Unwrap(d) # "" }

\* the places of the positions whose description is Some
SomeDescription(experience) ==
    { pl \in PositionsOf(experience) :
        IsSome(experience[pl[1]].children[pl[2]].description) }

\* C9: a position contributes a virtual bullet exactly when its description is
\* non-empty, and then one, with id = position id + "-description" and the
\* position's tags, priority and description; every real bullet contributes
\* one candidate.
C9_VirtualBulletIffNonEmpty ==
    \A c \in Calls :
        Sorted(c) /\ UniquePositionIds(resume_data) =>
            CandidatesMatchTree(all_bullets[c], resume_data,
                                NonEmptyDescription(resume_data))

\* what the code does: the virtual bullet is there exactly when the description
\* is Some, the empty string included
C9_VirtualBulletIffSome ==
    \A c \in Calls :
        Sorted(c) /\ UniquePositionIds(resume_data) =>
            CandidatesMatchTree(all_bullets[c], resume_data,
                                SomeDescription(resume_data))

\* C10: select_bullets leaves the resume tree and the role profile (and the
\* config) as they were: no step of a call changes them.
C10_InputsUnchanged ==
    [][/\ resume_data' = resume_data
       /\ role_profile' = role_profile
       /\ config' = config]_vars

\* a call has returned a selection from a tree that still has its bullets
C10_Witness ==
    \E c \in Calls :
        /\ Done(c)
        /\ Len(selected[c]) > 0
        /\ \E i \in 1..Len(resume_data), j \in 1..MaxPositions :
              /\ j <= Len(resume_data[i].children)
              /\ Len(resume_data[i].children[j].children) > 0

\* C11: on a resume whose experience is empty, select_bullets does not fail and
\* the list it returns is empty, whatever the role profile and the config.
C11_EmptyResume ==
    \A c \in Calls :
        resume_data = <<>> =>
            /\ pc[c] # "panicked"
            /\ pc[c] = "select" => all_bullets[c] = <<>>
            /\ Done(c) => selected[c] = <<>>

\* a call on the empty experience has returned
C11_Witness ==
    \E c \in Calls : Done(c) /\ resume_data = <<>> /\ selected[c] = <<>>

\* C12: select_bullets does not crash, whatever its input: no call ends in the
\* panic of the sort.
C12_NeverPanics == \A c \in Calls : pc[c] # "panicked"

\* C12, on the malformed data the claim lists: with finite scores (priorities
\* out of 1..=10, weights that do not sum to 1.0, no tag weights at all) no call
\* panics, and every call that has returned has returned a selection.
C12_NoPanicOnFiniteScores ==
    \A c \in Calls :
        (\A i \in 1..Len(Collected[resume_data, role_profile[c]]) :
            F32IsFinite(Collected[resume_data, role_profile[c]][i].score))
        => pc[c] # "panicked"

(***************************************************************************)
(* Properties of the functions of scoring.rs, under SpecScore.             *)
(***************************************************************************)
\* the call of function fn has returned
Returned(fn) == fn_call.fn = fn /\ IsSome(fn_ret)

\* the f32 operators `>=` and `<=`: false when either side is NaN
F32Ge(x, y) == F32PartialCmp(x, y) \in {Some("Greater"), Some("Equal")}
F32Le(x, y) == F32PartialCmp(x, y) \in {Some("Less"), Some("Equal")}

\* 0.0 <= x <= 1.0
InUnit(x) == F32Ge(x, F32_0_0) /\ F32Le(x, F32_1_0)

\* every weight of the map is in [0, 1]
TagWeightsInUnit(map) == \A i \in 1..Len(map) : InUnit(map[i][2])

\* the weights of the tags of the list that have an entry in the map, in the
\* order of the list
RECURSIVE MatchedWeights(_, _)
MatchedWeights(tags, map) ==
    IF tags = <<>> THEN <<>>
    ELSE (IF Head(tags) \in HashMapKeys(map)
          THEN <<Unwrap(HashMapGet(map, Head(tags)))>> ELSE <<>>)
         \o MatchedWeights(Tail(tags), map)

\* the f32 sum of a sequence, from 0.0, left to right
RECURSIVE F32Sum(_)
F32Sum(ws) ==
    IF ws = <<>> THEN F32_0_0
    ELSE F32Add(F32Sum(SubSeq(ws, 1, Len(ws) - 1)), ws[Len(ws)])

\* C13: calculate_tag_relevance returns the sum of the weights of the tags that
\* have an entry in tag_weights, divided by the number of those tags; the tags
\* without entry count neither in the sum nor in the divisor; when no tag has
\* an entry the result is exactly 0.
C13_AverageOfMatched ==
    Returned("calculate_tag_relevance") =>
        LET ws == MatchedWeights(fn_call.bullet_tags, fn_call.tag_weights)
        IN Unwrap(fn_ret) = IF ws = <<>> THEN F32_0_0
                                 ELSE F32DivNat(F32Sum(ws), Len(ws))

\* a call has returned for a list with a tag that has a weight above 0 and a
\* tag that has none
C13_Witness ==
    /\ Returned("calculate_tag_relevance")
    /\ \E i, j \in 1..Len(fn_call.bullet_tags) :
          /\ fn_call.bullet_tags[i] \in HashMapKeys(fn_call.tag_weights)
          /\ fn_call.bullet_tags[j] \notin HashMapKeys(fn_call.tag_weights)
    /\ Unwrap(fn_ret) > F32_0_0

\* C14: with every weight of tag_weights in [0, 1], calculate_tag_relevance
\* returns a value in [0, 1], whatever the tag list; for the empty tag list it
\* returns exactly 0.
C14_TagRelevanceInUnit ==
    Returned("calculate_tag_relevance") =>
        /\ TagWeightsInUnit(fn_call.tag_weights) => InUnit(Unwrap(fn_ret))
        /\ fn_call.bullet_tags = <<>> => Unwrap(fn_ret) = F32_0_0

\* a call has returned for two tags whose weights, both in [0, 1], add up to
\* more than 1
C14_Witness ==
    /\ Returned("calculate_tag_relevance")
    /\ TagWeightsInUnit(fn_call.tag_weights)
    /\ LET ws == MatchedWeights(fn_call.bullet_tags, fn_call.tag_weights)
       IN Len(ws) = 2 /\ F32Sum(ws) > F32_1_0

\* x is within one unit in the last place of the real number num / 100
\* (x = F32Sig(x) * 2^F32Exp(x), F32Exp(x) < 0)
WithinUlpOfHundredths(x, num) ==
    LET d == 100 * F32Sig(x) - num * 2^(0 - F32Exp(x))
    IN 0 - 100 <= d /\ d <= 100

\* C15: calculate_company_multiplier is 0.8 + (priority / 10) * 0.4, up to the
\* rounding of f32; for the priorities 1..10 it is in [0.84, 1.2]; it is 0.84 at
\* priority 1 (up to rounding), 1.2 at priority 10, exactly 1.0 at priority 5.
C15_CompanyMultiplier ==
    Returned("calculate_company_multiplier") =>
        LET priority == fn_call.company.priority
            m == Unwrap(fn_ret)
        IN /\ WithinUlpOfHundredths(m, 80 + 4 * priority)
           /\ priority \in 1..10 => F32Ge(m, F32_0_84) /\ F32Le(m, F32_1_2)
           /\ priority = 1 => WithinUlpOfHundredths(m, 84)
           /\ priority = 10 => m = F32_1_2
           /\ priority = 5 => m = F32_1_0

\* the call for priority 1 has returned, and not the f32 that 0.84 denotes
C15_Witness ==
    /\ Returned("calculate_company_multiplier")
    /\ fn_call.company.priority = 1
    /\ Unwrap(fn_ret) # F32_0_84

\* C16: for a position of priority 1..10, whatever its tags, and tag weights
\* in [0, 1], calculate_position_multiplier is in [0.7, 1.4].
C16_PositionMultiplier ==
    (/\ Returned("calculate_position_multiplier")
     /\ fn_call.position.priority \in 1..10
     /\ TagWeightsInUnit(fn_call.tag_weights))
    => /\ F32Ge(Unwrap(fn_ret), F32_0_7)
       /\ F32Le(Unwrap(fn_ret), F32_1_4)

\* the call has returned for priority 10 and tags of relevance 1.0: more than
\* the priority alone gives
C16_Witness ==
    /\ Returned("calculate_position_multiplier")
    /\ fn_call.position.priority = 10
    /\ TagWeightsInUnit(fn_call.tag_weights)
    /\ calculate_tag_relevance(fn_call.position.tags, fn_call.tag_weights)
          = F32_1_0
    /\ Unwrap(fn_ret) > F32_1_2

\* the arguments of the score_bullet call are well formed: priorities in
\* 1..10, tag weights and scoring weights in [0, 1]
WellFormedScoreCall ==
    /\ fn_call.bullet.priority \in 1..10
    /\ fn_call.position.priority \in 1..10
    /\ fn_call.company.priority \in 1..10
    /\ TagWeightsInUnit(fn_call.role_profile.tag_weights)
    /\ InUnit(fn_call.role_profile.scoring_weights.tag_relevance)
    /\ InUnit(fn_call.role_profile.scoring_weights.priority)

\* C17: for well-formed arguments (bullet, position and company priorities in
\* 1..10, tag weights and scoring weights in [0, 1]) score_bullet returns a
\* value >= 0.
C17_ScoreNonNegative ==
    (Returned("score_bullet") /\ WellFormedScoreCall)
        => F32Ge(Unwrap(fn_ret), F32_0_0)

\* a well-formed call has returned the lowest score, 0: no tag of the bullet has
\* a weight and the scoring weight of the priority is 0
C17_Witness ==
    /\ Returned("score_bullet")
    /\ WellFormedScoreCall
    /\ Unwrap(fn_ret) = F32_0_0

\* the f32 operator `<`: false when either side is NaN
F32Lt(x, y) == F32PartialCmp(x, y) = Some("Less")

\* the score of the same call with the priority of the bullet set to p
ScoreWithPriority(p) ==
    score_bullet([fn_call.bullet EXCEPT !.priority = p], fn_call.position,
                 fn_call.company, fn_call.role_profile)

\* the call scores a bullet of priority 10 under a profile whose scoring weight
\* for the priority is above 0
ScoredAtTen ==
    /\ Returned("score_bullet")
    /\ fn_call.bullet.priority = 10
    /\ F32Lt(F32_0_0, fn_call.role_profile.scoring_weights.priority)

\* C18, as stated: tags, position, company and profile being the same, the
\* score of the bullet with priority 10 is not lower than its score with
\* priority 1, provided the scoring weight for the priority is above 0.
C18_PriorityMonotone ==
    ScoredAtTen => ~F32Lt(Unwrap(fn_ret), ScoreWithPriority(1))

\* no weight of the map is negative
TagWeightsNonNegative(map) == \A i \in 1..Len(map) : F32Ge(map[i][2], F32_0_0)

\* C18, amended: the same, provided also that no tag weight of the profile is
\* negative.
C18_PriorityMonotoneNonNegative ==
    (ScoredAtTen /\ TagWeightsNonNegative(fn_call.role_profile.tag_weights))
        => ~F32Lt(Unwrap(fn_ret), ScoreWithPriority(1))

\* such a call has returned, and a score above the one for priority 1
C18_Witness ==
    /\ ScoredAtTen
    /\ TagWeightsNonNegative(fn_call.role_profile.tag_weights)
    /\ F32Lt(ScoreWithPriority(1), Unwrap(fn_ret))

\* the average weight of the matched tags, 0 without any
TagRelevanceOf(tags, map) ==
    IF MatchedWeights(tags, map) = <<>> THEN F32_0_0
    ELSE F32DivNat(F32Sum(MatchedWeights(tags, map)), Len(MatchedWeights(tags, map)))

\* C19: score_bullet returns (tagRelevance(bullet.tags) * weights.tag_relevance
\* + (bullet.priority / 10) * weights.priority) * companyMultiplier(company)
\* * positionMultiplier(position); neither the priority nor the result is
\* clamped.
C19_ScoreFormula ==
    Returned("score_bullet") =>
        Unwrap(fn_ret) =
            F32Mul(F32Mul(F32Add(F32Mul(TagRelevanceOf(fn_call.bullet.tags,
                                                       fn_call.role_profile.tag_weights),
                                        fn_call.role_profile.scoring_weights.tag_relevance),
                                 F32Mul(F32DivNat(F32FromNat(fn_call.bullet.priority), 10),
                                        fn_call.role_profile.scoring_weights.priority)),
                          calculate_company_multiplier(fn_call.company)),
                   calculate_position_multiplier(fn_call.position,
                                                 fn_call.role_profile.tag_weights))

\* a well-formed call has returned a score above 1.0
C19_Witness ==
    /\ Returned("score_bullet")
    /\ WellFormedScoreCall
    /\ F32Lt(F32_1_0, Unwrap(fn_ret))

(***************************************************************************)
(* count_selectable_items, under Spec.                                     *)
(***************************************************************************)
\* the places <<company, position, bullet>> of the real bullets of the tree
BulletsOf(experience) ==
    { pl \in PositionsOf(experience) \X (1..MaxChildren + 1) :
        pl[2] <= Len(experience[pl[1][1]].children[pl[1][2]].children) }

Counted == fn_call.fn = "count_selectable_items" /\ IsSome(fn_ret)

\* C20: count_selectable_items returns (bulletCount, positionDescriptionCount,
\* total): the number of real bullets of the tree, the number of positions
\* with a non-empty description, and their sum, which is the size of the
\* candidate pool select_bullets generates for the same tree.
C20_TotalIsPoolSize ==
    Counted =>
        /\ Unwrap(fn_ret)[1] = Cardinality(BulletsOf(resume_data))
        /\ Unwrap(fn_ret)[2] = Cardinality(NonEmptyDescription(resume_data))
        /\ Unwrap(fn_ret)[3] = Unwrap(fn_ret)[1] + Unwrap(fn_ret)[2]
        /\ \A c \in Calls : Sorted(c) => Unwrap(fn_ret)[3] = Len(all_bullets[c])

\* C20, on the trees in which no description is the empty text: the total is
\* the size of the candidate pool.
C20_TotalIsPoolSizeWithoutEmptyText ==
    (Counted /\ NonEmptyDescription(resume_data) = SomeDescription(resume_data)) =>
        \A c \in Calls : Sorted(c) => Unwrap(fn_ret)[3] = Len(all_bullets[c])

(***************************************************************************)
(* One call run alone, from its arguments to its result.                   *)
(***************************************************************************)
\* the loop of apply_diversity_constraints from the i-th candidate on
RECURSIVE SelectionPass(_, _, _, _, _, _)
SelectionPass(sorted_bullets, cfg, i, sel, ccounts, pcounts) ==
    IF i > Len(sorted_bullets) \/ TotalLimitReached(sel, cfg) THEN sel
    ELSE IF \/ CompanyLimitReached(ccounts, sorted_bullets[i], cfg)
            \/ PositionLimitReached(pcounts, sorted_bullets[i], cfg)
         THEN SelectionPass(sorted_bullets, cfg, i + 1, sel, ccounts, pcounts)
         ELSE SelectionPass(sorted_bullets, cfg, i + 1,
                            Append(sel, sorted_bullets[i]),
                            CountIncrement(ccounts, sorted_bullets[i].company_id),
                            CountIncrement(pcounts, sorted_bullets[i].position_id))

\* what select_bullets returns for these arguments when nothing else runs
SelectAlone(experience, profile, cfg) ==
    SelectionPass(SortByScoreDesc(Collected[experience, profile]), cfg,
                  1, <<>>, NoCounts, NoCounts)

\* C21: calls of select_bullets share no writable state: a call whose steps
\* are interleaved with those of another call on the same tree (same or other
\* role profile and config) returns what it returns when run alone, and fails
\* only if it fails alone.
C21_Isolated ==
    \A c \in Calls :
        /\ Done(c) => selected[c] = SelectAlone(resume_data, role_profile[c], config[c])
        /\ pc[c] = "panicked" => SortPanics(Collected[resume_data, role_profile[c]])

\* two calls with different profiles and configs have returned different
\* lists from the same tree
C21_Witness ==
    /\ Done(1) /\ Done(2)
    /\ role_profile[1] # role_profile[2]
    /\ config[1] # config[2]
    /\ Len(selected[1]) > 0 /\ Len(selected[2]) > 0
    /\ selected[1] # selected[2]

\* C22: under the default SelectionConfig a result of select_bullets has at
\* most 18 bullets, at most 6 of any company id and at most 4 of any position
\* id.
C22_DefaultCaps ==
    \A c \in Calls :
        Done(c) =>
            /\ Len(selected[c]) <= 18
            /\ \A id \in CompanyIds(selected[c]) : OfCompany(selected[c], id) <= 6
            /\ \A id \in PositionIds(selected[c]) : OfPosition(selected[c], id) <= 4

\* the three caps bind in one result: 18 bullets out of more candidates, 6 of a
\* company that has more, 4 of a position that has more
C22_Witness ==
    \E c \in Calls :
        /\ Done(c)
        /\ Len(selected[c]) = 18 /\ Len(all_bullets[c]) > 18
        /\ \E id \in CompanyIds(selected[c]) :
              OfCompany(selected[c], id) = 6 /\ OfCompany(all_bullets[c], id) > 6
        /\ \E id \in PositionIds(selected[c]) :
              OfPosition(selected[c], id) = 4 /\ OfPosition(all_bullets[c], id) > 4

\* |a + b - 1.0| < 0.001
SumsToOne(a, b) ==
    F32Lt(F32Abs(F32Add(F32Add(a, b), F32Neg(F32_1_0))), F32_0_001)

\* C23: ScoringWeights::normalize returns weights that sum to 1.0 within 0.001,
\* whatever the input; an input that sums to 1.0 within 0.001 is returned as it
\* is, without message; otherwise each weight is divided by the sum of the
\* input and a message comes with the result.
C23_NormalizeSumsToOne ==
    Returned("normalize") =>
        LET w == fn_call.weights
            r == Unwrap(fn_ret)
        IN /\ SumsToOne(r[1].tag_relevance, r[1].priority)
           /\ IF SumsToOne(w.tag_relevance, w.priority)
              THEN r[1] = w /\ r[2] = None
              ELSE /\ r[1].tag_relevance
                        = F32Div(w.tag_relevance, F32Add(w.tag_relevance, w.priority))
                   /\ r[1].priority
                        = F32Div(w.priority, F32Add(w.tag_relevance, w.priority))
                   /\ IsSome(r[2])

\* C23, on the inputs whose sum is a finite number other than 0: the same.
C23_NormalizeSumsToOneNonZero ==
    (/\ Returned("normalize")
     /\ F32Add(fn_call.weights.tag_relevance, fn_call.weights.priority) # F32_0_0
     /\ F32IsFinite(F32Add(fn_call.weights.tag_relevance, fn_call.weights.priority)))
    => C23_NormalizeSumsToOne

(***************************************************************************)
(* The selection pass, step by step.                                       *)
(***************************************************************************)
\* fewer than max_bullets candidates have been admitted
BelowTotal(c) == Len(selected[c]) < config[c].max_bullets

\* the admitted candidates of the company and of the position of candidate b
\* are fewer than the caps that are set
BelowCaps(c, b) ==
    /\ IsSome(config[c].max_per_company) =>
           OfCompany(selected[c], b.company_id) < Unwrap(config[c].max_per_company)
    /\ IsSome(config[c].max_per_position) =>
           OfPosition(selected[c], b.position_id) < Unwrap(config[c].max_per_position)

\* what a step of call c at the candidate b does
TurnOf(c, b) ==
    /\ selected'[c] = Append(selected[c], b) <=> (BelowTotal(c) /\ BelowCaps(c, b))
    /\ selected'[c] # Append(selected[c], b) => selected'[c] = selected[c]
    /\ BelowTotal(c) => pc'[c] = "select" /\ idx'[c] = idx[c] + 1
    /\ ~BelowTotal(c) => pc'[c] = "done"

\* C24: in the pass over the sorted pool a candidate is admitted exactly when,
\* at its turn, fewer than max_bullets candidates have been admitted and the
\* admitted candidates of its company and of its position are fewer than the
\* caps that are set; a candidate that a cap blocks is skipped and the pass
\* goes on to the next one; at max_bullets the pass ends.
C24_AdmittedExactlyWhenAllowed ==
    [][\A c \in Calls :
          (InLoop(c) /\ <<pc[c], idx[c]>>' # <<pc[c], idx[c]>>)
              => TurnOf(c, all_bullets[c][idx[c]])]_vars

\* a candidate was skipped at a cap and a later one, of lower score, admitted
C24_Witness ==
    \E c \in Calls :
        /\ Done(c)
        /\ \E i, j \in 1..Len(all_bullets[c]) :
              /\ i < j /\ j < idx[c]
              /\ all_bullets[c][j].score < all_bullets[c][i].score
              /\ \A k \in 1..Len(selected[c]) : selected[c][k] # all_bullets[c][i]
              /\ \E k \in 1..Len(selected[c]) : selected[c][k] = all_bullets[c][j]

\* 0.8 + (priority / 10) * 0.4
PriorityFactor(priority) ==
    F32Add(F32_0_8, F32Mul(F32DivNat(F32FromNat(priority), 10), F32_0_4))

\* the position multiplier is the factor times the priority factor
MultiplierHasTagFactor(factor) ==
    Unwrap(fn_ret) = F32Mul(factor, PriorityFactor(fn_call.position.priority))

\* C25: the tag factor of the position multiplier is exactly 1.0 for a position
\* without tags and 0.9 + 0.2 * tagRelevance(position.tags) for one with tags,
\* hence 0.9 when no tag of the position is in the profile and 1.1 when all
\* have weight 1.0; the multiplier is the factor times
\* 0.8 + (position.priority / 10) * 0.4.
C25_TagFactor ==
    Returned("calculate_position_multiplier") =>
        LET tags == fn_call.position.tags
            ws == MatchedWeights(tags, fn_call.tag_weights)
        IN /\ tags = <<>> => MultiplierHasTagFactor(F32_1_0)
           /\ tags # <<>> =>
                  MultiplierHasTagFactor(
                      F32Add(F32_0_9,
                             F32Mul(F32_0_2, TagRelevanceOf(tags, fn_call.tag_weights))))
           /\ (tags # <<>> /\ ws = <<>>) => MultiplierHasTagFactor(F32_0_9)
           /\ (tags # <<>> /\ Len(ws) = Len(tags) /\ \A i \in 1..Len(ws) : ws[i] = F32_1_0)
                  => MultiplierHasTagFactor(F32_1_1)

\* the multiplier has been returned for a position without tags under a
\* profile that has tag weights
C25_Witness ==
    /\ Returned("calculate_position_multiplier")
    /\ fn_call.position.tags = <<>>
    /\ fn_call.tag_weights # <<>>
    /\ fn_call.position.priority = 10
    /\ Unwrap(fn_ret) = F32_1_2

(***************************************************************************)
(* The candidates and their owners.                                        *)
(***************************************************************************)
\* the bullet of candidate sb is a bullet of the position, or the bullet made
\* of the description of the position
OwnedBy(sb, position) ==
    \/ \E k \in 1..Len(position.children) : sb.bullet = position.children[k]
    \/ /\ IsSome(position.description)
       /\ sb.bullet = Bullet(position.id \o "-description",
                             Unwrap(position.description),
                             position.tags, position.priority)

\* candidate sb carries the ids and names of the position and the company and
\* the score of its bullet under them
CarriesContext(sb, position, company, profile) ==
    /\ sb.company_id = company.id
    /\ sb.company_name = company.name
    /\ sb.position_id = position.id
    /\ sb.position_name = position.name
    /\ OwnedBy(sb, position)
    /\ sb.score = score_bullet(sb.bullet, position, company, profile)

\* C26: every ScoredBullet select_bullets returns carries the id and the name
\* of the company and of the position that own its bullet in the input tree
\* (for a description bullet, the position it was made from and the company of
\* that position), and its score is score_bullet of that bullet, position and
\* company.
C26_CarriesOwners ==
    \A c \in Calls :
        Done(c) =>
            \A k \in 1..Len(selected[c]) :
                \E pl \in PositionsOf(resume_data) :
                    CarriesContext(selected[c][k],
                                   resume_data[pl[1]].children[pl[2]],
                                   resume_data[pl[1]], role_profile[c])

\* a call has returned a description bullet and a real bullet of two companies
C26_Witness ==
    \E c \in Calls :
        /\ Done(c)
        /\ \E k, m \in 1..Len(selected[c]) :
              /\ selected[c][k].bullet.id = selected[c][k].position_id \o "-description"
              /\ selected[c][m].bullet.id # selected[c][m].position_id \o "-description"
              /\ selected[c][k].company_id # selected[c][m].company_id

\* the candidates of vec that are description bullets of the position at pl
DescriptionBulletsAt(vec, experience, pl) ==
    { k \in 1..Len(vec) :
        /\ vec[k].position_id = experience[pl[1]].children[pl[2]].id
        /\ vec[k].company_id = experience[pl[1]].id
        /\ vec[k].bullet.id = experience[pl[1]].children[pl[2]].id \o "-description"
        /\ vec[k].bullet.tags = experience[pl[1]].children[pl[2]].tags
        /\ vec[k].bullet.priority = experience[pl[1]].children[pl[2]].priority }

\* the score of a real bullet of the position whose tags and priority are those
\* of the position
ScoreOfRealLike(position, company, profile) ==
    score_bullet(Bullet("b1", "Built scalable system", position.tags, position.priority),
                 position, company, profile)

\* the base score made of the position's tags and priority, times the company
\* multiplier and the position multiplier
ScoreFromPosition(position, company, profile) ==
    F32Mul(F32Mul(F32Add(F32Mul(TagRelevanceOf(position.tags, profile.tag_weights),
                                profile.scoring_weights.tag_relevance),
                         F32Mul(F32DivNat(F32FromNat(position.priority), 10),
                                profile.scoring_weights.priority)),
                  calculate_company_multiplier(company)),
           calculate_position_multiplier(position, profile.tag_weights))

\* C27: a description bullet is scored like a real bullet: its score is the
\* score a real bullet of the same position gets when its tags and priority are
\* those of the position, so that the position's tags and priority count in the
\* base score and in the position multiplier.
C27_DescriptionScoredAsBullet ==
    \A c \in Calls :
        Sorted(c) =>
            \A pl \in PositionsOf(resume_data) :
                \A k \in DescriptionBulletsAt(all_bullets[c], resume_data, pl) :
                    /\ all_bullets[c][k].score
                         = ScoreOfRealLike(resume_data[pl[1]].children[pl[2]],
                                           resume_data[pl[1]], role_profile[c])
                    /\ all_bullets[c][k].score
                         = ScoreFromPosition(resume_data[pl[1]].children[pl[2]],
                                             resume_data[pl[1]], role_profile[c])

\* the pool of a call has a description bullet whose tags have a weight, and
\* which scores above 0
C27_Witness ==
    \E c \in Calls :
        /\ Sorted(c) /\ UniquePositionIds(resume_data)
        /\ \E pl \in PositionsOf(resume_data) :
              \E k \in DescriptionBulletsAt(all_bullets[c], resume_data, pl) :
                  /\ TagRelevanceOf(all_bullets[c][k].bullet.tags,
                                    role_profile[c].tag_weights) > F32_0_0
                  /\ role_profile[c].scoring_weights.tag_relevance > F32_0_0
                  /\ all_bullets[c][k].score > F32_0_0

\* the places of the sorted pool at which the element sb stands
PlacesIn(vec, sb) == {i \in 1..Len(vec) : vec[i] = sb}

\* sub is vec with some elements left out: a strictly increasing choice of
\* places of vec gives sub
IsSubsequence(sub, vec) ==
    \E f \in [1..Len(sub) -> 1..Len(vec)] :
        /\ \A k \in 1..Len(sub) : vec[f[k]] = sub[k]
        /\ \A k, m \in 1..Len(sub) : k < m => f[k] < f[m]

\* C28: what select_bullets returns is a subsequence of the sorted pool: every
\* returned item is a candidate of the pool, none is returned twice, and the
\* returned items stand in the order they have in the pool.
C28_Subsequence ==
    \A c \in Calls :
        Done(c) =>
            /\ \A k \in 1..Len(selected[c]) :
                   Cardinality(PlacesIn(all_bullets[c], selected[c][k])) = 1
            /\ \A k, m \in 1..Len(selected[c]) :
                   k # m => selected[c][k] # selected[c][m]
            /\ IsSubsequence(selected[c], all_bullets[c])

\* a call returned two items with a candidate left out between them
C28_Witness ==
    \E c \in Calls :
        /\ Done(c)
        /\ Len(selected[c]) >= 2
        /\ \E i, j, k \in 1..Len(all_bullets[c]) :
              /\ i < j /\ j < k
              /\ selected[c][1] = all_bullets[c][i]
              /\ selected[c][2] = all_bullets[c][k]
              /\ \A m \in 1..Len(selected[c]) : selected[c][m] # all_bullets[c][j]

RECURSIVE SumCounts(_)
\* the sum of the values of a counter map
SumCounts(counts) ==
    IF DOMAIN counts = {} THEN 0
    ELSE LET key == CHOOSE k \in DOMAIN counts : TRUE
         IN  counts[key] + SumCounts([k \in DOMAIN counts \ {key} |-> counts[k]])

\* the counters of call c count the items of `selected`
CountersMatch(c) ==
    /\ \A id \in CompanyIds(all_bullets[c]) \cup DOMAIN company_counts[c] :
           CountGet(company_counts[c], id) = OfCompany(selected[c], id)
    /\ \A id \in PositionIds(all_bullets[c]) \cup DOMAIN position_counts[c] :
           CountGet(position_counts[c], id) = OfPosition(selected[c], id)
    /\ SumCounts(company_counts[c]) = Len(selected[c])
    /\ SumCounts(position_counts[c]) = Len(selected[c])

\* a step of call c that passes a candidate without selecting it
SkipStep(c) ==
    /\ InLoop(c)
    /\ idx'[c] = idx[c] + 1
    /\ selected'[c] = selected[c]

\* C29: at every step of the selection pass each company counter is the number
\* of selected bullets of that company id and each position counter the number
\* of selected bullets of that position id, both sums are the length of
\* `selected`, and a skipped candidate changes no counter.
C29_CountersMatchSelected ==
    /\ [](\A c \in Calls : Sorted(c) => CountersMatch(c))
    /\ [][\A c \in Calls :
             SkipStep(c) => /\ company_counts'[c] = company_counts[c]
                            /\ position_counts'[c] = position_counts[c]]_vars

\* in the pass: a candidate was skipped, and a company counter stands at 2
C29_Witness ==
    \E c \in Calls :
        /\ pc[c] = "select"
        /\ Len(selected[c]) >= 2
        /\ idx[c] - 1 > Len(selected[c])
        /\ \E id \in DOMAIN company_counts[c] : company_counts[c][id] >= 2
        /\ \E id \in DOMAIN position_counts[c] : position_counts[c][id] = 1

\* call d has the arguments of call c, but max_bullets one higher
OneMore(c, d) ==
    /\ role_profile[c] = role_profile[d]
    /\ config[d] = [config[c] EXCEPT !.max_bullets = config[c].max_bullets + 1]

IsPrefix(s, t) == Len(s) <= Len(t) /\ SubSeq(t, 1, Len(s)) = s

\* C30: for a fixed tree, profile, max_per_company and max_per_position, the
\* result with max_bullets = n is a prefix of the result with max_bullets = n + 1.
C30_PrefixOfNext ==
    \A c, d \in Calls :
        Done(c) /\ Done(d) /\ OneMore(c, d) => IsPrefix(selected[c], selected[d])

\* two calls under a cap, the second with one more bullet allowed, returned
\* one bullet and two bullets
C30_Witness ==
    \E c, d \in Calls :
        /\ Done(c) /\ Done(d) /\ OneMore(c, d)
        /\ IsSome(config[c].max_per_company)
        /\ Len(selected[c]) = 1
        /\ Len(selected[d]) = 2
====
